---- MODULE Spec2Model ----
(***************************************************************************)
(* LockedBuffer<T> (src/memory/locked.rs): a fixed-size host buffer in     *)
(* page-locked memory, together with the pinned allocator it calls and a   *)
(* client that constructs, accesses, decomposes, reconstructs and drops    *)
(* buffers.  Memory is modelled by address, so that aliasing, double frees *)
(* and leaks are observable.                                               *)
(***************************************************************************)
EXTENDS Integers, Sequences, FiniteSets, TLC

\* ------------------------------------------------------------- bounds
UsizeBits == 4      \* width of usize in the model
MaxLen == 2         \* longest buffer whose allocation the driver grants
MaxAddr == 2        \* number of distinct pinned addresses the driver hands out
MaxBufs == 2        \* buffer variables the client holds
MaxRaw == 1         \* decomposed (ptr, size) pairs the client holds at once

\* ------------------------------------------------------------- values
UsizeMax == 2 ^ UsizeBits - 1

\* mem::size_of::<T>() of the element types used: a zero-sized type and u32
ElemSizes == {0, 4}

\* the only value of a zero-sized type
Unit == 0

\* contents of a slot nobody has written yet
Uninit == -1

\* the values of a non-zero-sized element type
Data == {0, 1}

ValuesOf(tsize) == IF tsize = 0 THEN {Unit} ELSE Data

\* ptr::NonNull::dangling(): the non-null placeholder address
Dangling == 1

\* addresses the pinned allocator can return
Addrs == 2 .. (MaxAddr + 1)

\* address of the caller's own slice (ordinary host memory)
SrcAddr == MaxAddr + 2

\* the driver never grants more than this many bytes
PinnedLimit == MaxLen * 4

DriverErrors == {"OutOfMemory", "InvalidValue"}

\* the absent result of checked_mul
None == -1

\* a LockedBuffer<T> {buf, capacity} is [buf, capacity], with size_of::<T>() as
\* tsize; live says that the variable holds a buffer, origin which constructor
\* made it and reborn that from_raw_parts did
NoBuf == [buf |-> Dangling, capacity |-> 0, tsize |-> 0, live |-> FALSE,
          origin |-> "none", reborn |-> FALSE]

Slots == 1 .. MaxBufs

\* sizes a caller asks for, the test's usize::MAX - 1 among them
SizeArgs == (0 .. MaxLen) \cup {UsizeMax - 1}

VARIABLES
    bufs,         \* slot -> LockedBuffer {buf, capacity} of element size tsize
    raw,          \* (ptr, size) pairs the caller holds after mem::forget
    mem,          \* address -> the element slots stored there
    allocs,       \* the driver's record, per address, of the allocation made there
    invalidFree,  \* the deallocator was called on an address it does not own
    srcLen,       \* length of the caller's slice (it lives at SrcAddr)
    srcT,         \* element size of the caller's slice
    last,         \* the last operation, its arguments and what it did
    panic         \* "none", "unwinding" or "aborted"

vars == <<bufs, raw, mem, allocs, invalidFree, srcLen, srcT, last, panic>>

\* the product computed with a wrapping multiplication
checked_mul_wrapping(a, b) == (a * b) % (UsizeMax + 1)

\* usize::checked_mul
checked_mul(a, b) == IF a * b > UsizeMax THEN None ELSE a * b

\* ------------------------------------------------------------- driver
LiveAt(al, a) == a \in Addrs /\ al[a].live

FreeAddrs(al) == {a \in Addrs : ~LiveAt(al, a)}

\* what the driver may answer to a request for `bytes` bytes; a request that is
\* never made (no bytes, or no valid byte count) has a single, unused, answer
MallocOutcomes(bytes, al) ==
    IF bytes <= 0
    THEN {[ok |-> FALSE, addr |-> Dangling, err |-> "OutOfMemory"]}
    ELSE {[ok |-> TRUE, addr |-> a, err |-> "none"] :
             a \in IF bytes <= PinnedLimit THEN FreeAddrs(al) ELSE {}}
         \cup {[ok |-> FALSE, addr |-> Dangling, err |-> e] : e \in DriverErrors}

FreeOutcomes == {"ok", "InvalidValue"}

\* the pinned allocator: bytes of uninitialised locked memory, or the driver's error
cuda_malloc_locked(bytes, tsize, m, al, oc) ==
    IF oc.ok
    THEN [res |-> "ok", ptr |-> oc.addr,
          mem |-> [m EXCEPT ![oc.addr] = [i \in 1 .. (bytes \div tsize) |-> Uninit]],
          allocs |-> [al EXCEPT ![oc.addr] = [live |-> TRUE, frees |-> 0]]]
    ELSE [res |-> oc.err, ptr |-> Dangling,
          mem |-> m, allocs |-> al]

\* the pinned deallocator
cuda_free_locked(ptr, m, al, oc) ==
    IF LiveAt(al, ptr)
    THEN [res |-> oc, invalid |-> FALSE,
          mem |-> IF oc = "ok" THEN [m EXCEPT ![ptr] = <<>>] ELSE m,
          allocs |-> [al EXCEPT ![ptr] = [live |-> (oc # "ok"), frees |-> @.frees + 1]]]
    ELSE [res |-> oc, invalid |-> TRUE, mem |-> m, allocs |-> al]

\* ------------------------------------------------------------- memory access
\* an address and the slots stored there that an access may touch
Mapped(m, ptr, i) == ptr \in DOMAIN m /\ i \in DOMAIN m[ptr]

\* *ptr.add(i - 1); outside every region the read finds garbage
PtrRead(m, tsize, ptr, i) ==
    IF tsize = 0 THEN Unit
    ELSE IF Mapped(m, ptr, i) THEN m[ptr][i] ELSE Uninit

\* *ptr.add(i - 1) = v; outside every region the write is lost
PtrWrite(m, tsize, ptr, i, v) ==
    IF tsize = 0 \/ ~Mapped(m, ptr, i) THEN m ELSE [m EXCEPT ![ptr][i] = v]

\* ------------------------------------------------------------- LockedBuffer

\* uninitialized, reporting every failure as its own error
uninitialized_masks_error(size, tsize, m, al, oc) ==
    LET bytes == checked_mul(size, tsize) IN
    IF bytes = None
    THEN [res |-> "InvalidMemoryAllocation", buf |-> NoBuf, mem |-> m, allocs |-> al,
          req |-> <<>>]
    ELSE IF bytes > 0
    THEN LET r == cuda_malloc_locked(bytes, tsize, m, al, oc) IN
         IF r.res = "ok"
         THEN [res |-> "ok",
               buf |-> [buf |-> r.ptr, capacity |-> size, tsize |-> tsize, live |-> TRUE,
                        origin |-> "uninitialized", reborn |-> FALSE],
               mem |-> r.mem, allocs |-> r.allocs, req |-> <<bytes>>]
         ELSE [res |-> "InvalidMemoryAllocation", buf |-> NoBuf, mem |-> m, allocs |-> al,
               req |-> <<bytes>>]
    ELSE [res |-> "ok",
          buf |-> [buf |-> Dangling, capacity |-> size, tsize |-> tsize, live |-> TRUE,
                   origin |-> "uninitialized", reborn |-> FALSE],
          mem |-> m, allocs |-> al, req |-> <<>>]

uninitialized(size, tsize, m, al, oc) ==
    LET bytes == checked_mul(size, tsize) IN
    IF bytes = None
    THEN [res |-> "InvalidMemoryAllocation", buf |-> NoBuf, mem |-> m, allocs |-> al,
          req |-> <<>>]
    ELSE IF bytes > 0
    THEN LET r == cuda_malloc_locked(bytes, tsize, m, al, oc) IN
         IF r.res = "ok"
         THEN [res |-> "ok",
               buf |-> [buf |-> r.ptr, capacity |-> size, tsize |-> tsize, live |-> TRUE,
                       origin |-> "uninitialized", reborn |-> FALSE],
               mem |-> r.mem, allocs |-> r.allocs, req |-> <<bytes>>]
         ELSE [res |-> r.res, buf |-> NoBuf, mem |-> m, allocs |-> al, req |-> <<bytes>>]
    ELSE [res |-> "ok",
          buf |-> [buf |-> Dangling, capacity |-> size, tsize |-> tsize, live |-> TRUE,
                       origin |-> "uninitialized", reborn |-> FALSE],
          mem |-> m, allocs |-> al, req |-> <<>>]

\* the read view with the byte count taken for the element count
deref_bytes(b, m) == [i \in 1 .. (b.capacity * b.tsize) |-> PtrRead(m, b.tsize, b.buf, i)]

\* Deref: the read view, slice::from_raw_parts(self.buf, self.capacity)
deref(b, m) == [i \in 1 .. b.capacity |-> PtrRead(m, b.tsize, b.buf, i)]

\* DerefMut: the mutable view, slice::from_raw_parts_mut(self.buf, self.capacity)
deref_mut(b, m) == [i \in 1 .. b.capacity |-> PtrRead(m, b.tsize, b.buf, i)]

as_slice(b, m) == deref(b, m)

as_mut_slice(b, m) == deref_mut(b, m)

\* from_raw_parts that keeps the size and loses the pointer
from_raw_parts_dangling(ptr, size, tsize, origin) ==
    [buf |-> Dangling, capacity |-> size, tsize |-> tsize, live |-> TRUE,
     origin |-> origin, reborn |-> TRUE]

from_raw_parts(ptr, size, tsize, origin) ==
    [buf |-> ptr, capacity |-> size, tsize |-> tsize, live |-> TRUE,
     origin |-> origin, reborn |-> TRUE]


\* what one run of an initialisation loop did to the slots
NoStats(n) == [views |-> 0, assigns |-> 0, writes |-> [i \in 1 .. n |-> 0]]

\* `*uninit.get_unchecked_mut(x) = v`: deref_mut forms the typed view over all
\* capacity slots, the assignment drops the old slot value and stores v
assign_unchecked(b, m, x, v, st) ==
    LET view == deref_mut(b, m) IN
    [mem |-> PtrWrite(m, b.tsize, b.buf, x, v),
     st |-> [views |-> st.views + (IF \E i \in 1 .. Len(view) : view[i] = Uninit
                                   THEN 1 ELSE 0),
             assigns |-> st.assigns + (IF view[x] = Uninit THEN 1 ELSE 0),
             writes |-> [st.writes EXCEPT ![x] = @ + 1]]]

\* the loop of new and from_slice, from iteration x (1-based) on
RECURSIVE init_loop(_, _, _, _, _)
init_loop(b, vals, x, m, st) ==
    IF x > Len(vals)
    THEN [mem |-> m, st |-> st]
    ELSE LET r == assign_unchecked(b, m, x, vals[x], st)
         IN init_loop(b, vals, x + 1, r.mem, r.st)

\* new, with the loop running over 1..size instead of 0..size
new_skips_first(value, size, tsize, m, al, oc) ==
    LET u == uninitialized(size, tsize, m, al, oc) IN
    IF u.res # "ok"
    THEN [res |-> u.res, buf |-> NoBuf, mem |-> u.mem, allocs |-> u.allocs,
          req |-> u.req, st |-> NoStats(0)]
    ELSE LET r == init_loop(u.buf, [i \in 1 .. size |-> value], 2, u.mem, NoStats(size))
         IN [res |-> "ok", buf |-> [u.buf EXCEPT !.origin = "new"], mem |-> r.mem,
             allocs |-> u.allocs, req |-> u.req, st |-> r.st]

new(value, size, tsize, m, al, oc) ==
    LET u == uninitialized(size, tsize, m, al, oc) IN
    IF u.res # "ok"
    THEN [res |-> u.res, buf |-> NoBuf, mem |-> u.mem, allocs |-> u.allocs,
          req |-> u.req, st |-> NoStats(0)]
    ELSE LET r == init_loop(u.buf, [i \in 1 .. size |-> value], 1, u.mem, NoStats(size))
         IN [res |-> "ok", buf |-> [u.buf EXCEPT !.origin = "new"], mem |-> r.mem,
             allocs |-> u.allocs, req |-> u.req, st |-> r.st]

\* from_slice, wrapping the caller's memory instead of copying it
from_slice_aliases(slice, tsize, m, al, oc) ==
    [res |-> "ok",
     buf |-> [buf |-> IF tsize = 0 \/ Len(slice) = 0 THEN Dangling ELSE SrcAddr,
              capacity |-> Len(slice), tsize |-> tsize, live |-> TRUE,
              origin |-> "from_slice", reborn |-> FALSE],
     mem |-> m, allocs |-> al, req |-> <<>>, st |-> NoStats(Len(slice))]

from_slice(slice, tsize, m, al, oc) ==
    LET u == uninitialized(Len(slice), tsize, m, al, oc) IN
    IF u.res # "ok"
    THEN [res |-> u.res, buf |-> NoBuf, mem |-> u.mem, allocs |-> u.allocs,
          req |-> u.req, st |-> NoStats(0)]
    ELSE LET r == init_loop(u.buf, slice, 1, u.mem, NoStats(Len(slice)))
         IN [res |-> "ok", buf |-> [u.buf EXCEPT !.origin = "from_slice"], mem |-> r.mem,
             allocs |-> u.allocs, req |-> u.req, st |-> r.st]

\* drop, without the test for an empty footprint
drop_unguarded(b, m, al, oc) ==
    LET r == cuda_free_locked(b.buf, m, al, oc)
    IN [res |-> IF r.res = "ok" THEN "ok" ELSE "panic", frees |-> <<b.buf>>,
        invalid |-> r.invalid, mem |-> r.mem, allocs |-> r.allocs]

\* drop, releasing nothing
drop_leaks(b, m, al, oc) ==
    [res |-> "ok", frees |-> <<>>, invalid |-> FALSE, mem |-> m, allocs |-> al]

\* drop, discarding the deallocator's result
drop_ignores_failure(b, m, al, oc) ==
    IF b.capacity > 0 /\ b.tsize > 0
    THEN LET r == cuda_free_locked(b.buf, m, al, oc)
         IN [res |-> "ok", frees |-> <<b.buf>>,
             invalid |-> r.invalid, mem |-> r.mem, allocs |-> r.allocs]
    ELSE [res |-> "ok", frees |-> <<>>, invalid |-> FALSE, mem |-> m, allocs |-> al]

\* Drop for LockedBuffer
drop(b, m, al, oc) ==
    IF b.capacity > 0 /\ b.tsize > 0
    THEN LET r == cuda_free_locked(b.buf, m, al, oc)
         IN [res |-> IF r.res = "ok" THEN "ok" ELSE "panic", frees |-> <<b.buf>>,
             invalid |-> r.invalid, mem |-> r.mem, allocs |-> r.allocs]
    ELSE [res |-> "ok", frees |-> <<>>, invalid |-> FALSE, mem |-> m, allocs |-> al]

\* the caller's slice, as from_slice receives it
Slice(m) == [i \in 1 .. srcLen |-> PtrRead(m, srcT, SrcAddr, i)]

\* ------------------------------------------------------------- the record of an operation
L0 == [op |-> "init", slot |-> 0, size |-> 0, tsize |-> 0, val |-> 0, idx |-> 0,
       ptr |-> Dangling, res |-> "ok", req |-> <<>>, frees |-> <<>>,
       st |-> NoStats(0), got |-> 0, snap |-> <<>>, reborn |-> FALSE,
       drv |-> [ok |-> FALSE, addr |-> Dangling, err |-> "OutOfMemory"],
       drvFree |-> "ok"]

Init ==
    /\ bufs = [s \in Slots |-> NoBuf]
    /\ raw = {}
    /\ srcT = 0
    /\ srcLen = 0
    /\ mem = [a \in Addrs \cup {SrcAddr} |-> <<>>]
    /\ allocs = [a \in Addrs |-> [live |-> FALSE, frees |-> 0]]
    /\ invalidFree = FALSE
    /\ last = L0
    /\ panic = "none"

\* ------------------------------------------------------------- operations
\* a new buffer goes into the first variable that holds none
Vacant(s) == ~bufs[s].live /\ \A r \in 1 .. (s - 1) : bufs[r].live

Ready(s) == panic = "none" /\ Vacant(s)

\* the slices a caller passes to from_slice
SliceArgs(tsize) ==
    UNION {[1 .. n -> ValuesOf(tsize)] : n \in 0 .. MaxLen}

New(s, v, size, tsize) ==
    /\ Ready(s)
    /\ \E oc \in MallocOutcomes(checked_mul(size, tsize), allocs) :
         LET r == new(v, size, tsize, mem, allocs, oc) IN
         /\ bufs' = [bufs EXCEPT ![s] = r.buf]
         /\ mem' = r.mem
         /\ allocs' = r.allocs
         /\ last' = [L0 EXCEPT !.op = "new", !.slot = s, !.size = size, !.tsize = tsize,
                               !.val = v, !.res = r.res, !.req = r.req, !.st = r.st,
                               !.ptr = r.buf.buf, !.drv = oc]
    /\ UNCHANGED <<raw, invalidFree, srcLen, srcT, panic>>

\* let values = [..]; LockedBuffer::from_slice(&values)
FromSlice(s, slice, tsize) ==
    /\ Ready(s)
    /\ srcLen' = Len(slice)
    /\ srcT' = tsize
    /\ \E oc \in MallocOutcomes(checked_mul(Len(slice), tsize), allocs) :
         LET m0 == [mem EXCEPT ![SrcAddr] = IF tsize = 0 THEN <<>> ELSE slice]
             r == from_slice(slice, tsize, m0, allocs, oc)
         IN /\ bufs' = [bufs EXCEPT ![s] = r.buf]
            /\ mem' = r.mem
            /\ allocs' = r.allocs
            /\ last' = [L0 EXCEPT !.op = "from_slice", !.slot = s, !.size = Len(slice),
                                  !.tsize = tsize, !.res = r.res, !.req = r.req,
                                  !.st = r.st, !.ptr = r.buf.buf, !.snap = slice,
                                  !.drv = oc]
    /\ UNCHANGED <<raw, invalidFree, panic>>

Uninitialized(s, size, tsize) ==
    /\ Ready(s)
    /\ \E oc \in MallocOutcomes(checked_mul(size, tsize), allocs) :
         LET r == uninitialized(size, tsize, mem, allocs, oc) IN
         /\ bufs' = [bufs EXCEPT ![s] = r.buf]
         /\ mem' = r.mem
         /\ allocs' = r.allocs
         /\ last' = [L0 EXCEPT !.op = "uninitialized", !.slot = s, !.size = size,
                               !.tsize = tsize, !.res = r.res, !.req = r.req,
                               !.ptr = r.buf.buf, !.drv = oc]
    /\ UNCHANGED <<raw, invalidFree, srcLen, srcT, panic>>

\* let ptr = buffer.as_mut_ptr(); let len = buffer.len(); mem::forget(buffer)
IntoRawParts(s) ==
    /\ panic = "none"
    /\ bufs[s].live
    /\ Cardinality(raw) < MaxRaw
    /\ raw' = raw \cup {[ptr |-> bufs[s].buf, size |-> Len(deref(bufs[s], mem)),
                         tsize |-> bufs[s].tsize, origin |-> bufs[s].origin,
                         snap |-> deref(bufs[s], mem)]}
    /\ bufs' = [bufs EXCEPT ![s] = NoBuf]
    /\ last' = [L0 EXCEPT !.op = "into_raw_parts", !.slot = s, !.size = bufs[s].capacity,
                          !.tsize = bufs[s].tsize, !.ptr = bufs[s].buf,
                          !.snap = deref(bufs[s], mem)]
    /\ UNCHANGED <<mem, allocs, invalidFree, srcLen, srcT, panic>>

\* the caller hands a decomposed pair back, once, with the size it had
FromRawParts(s, p) ==
    /\ panic = "none"
    /\ Vacant(s)
    /\ p \in raw
    /\ raw' = raw \ {p}
    /\ bufs' = [bufs EXCEPT ![s] = from_raw_parts(p.ptr, p.size, p.tsize, p.origin)]
    /\ last' = [L0 EXCEPT !.op = "from_raw_parts", !.slot = s, !.size = p.size,
                          !.tsize = p.tsize, !.ptr = p.ptr, !.snap = p.snap]
    /\ UNCHANGED <<mem, allocs, invalidFree, srcLen, srcT, panic>>

\* buffer[i], read
IndexRead(s, i) ==
    /\ panic = "none"
    /\ bufs[s].live
    /\ LET view == deref(bufs[s], mem) IN
       IF i < Len(view)
       THEN /\ \E g \in (IF view[i + 1] = Uninit THEN Data ELSE {view[i + 1]}) :
                 last' = [L0 EXCEPT !.op = "index", !.slot = s, !.idx = i, !.got = g]
            /\ panic' = panic
       ELSE /\ last' = [L0 EXCEPT !.op = "index", !.slot = s, !.idx = i,
                                  !.res = "OutOfBounds"]
            /\ panic' = "unwinding"
    /\ UNCHANGED <<bufs, raw, mem, allocs, invalidFree, srcLen, srcT>>

\* buffer[i] = v
IndexWrite(s, i, v) ==
    /\ panic = "none"
    /\ bufs[s].live
    /\ v \in ValuesOf(bufs[s].tsize)
    /\ LET view == deref_mut(bufs[s], mem) IN
       IF i < Len(view)
       THEN /\ mem' = PtrWrite(mem, bufs[s].tsize, bufs[s].buf, i + 1, v)
            /\ last' = [L0 EXCEPT !.op = "index_mut", !.slot = s, !.idx = i, !.val = v]
            /\ panic' = panic
       ELSE /\ mem' = mem
            /\ last' = [L0 EXCEPT !.op = "index_mut", !.slot = s, !.idx = i, !.val = v,
                                  !.res = "OutOfBounds"]
            /\ panic' = "unwinding"
    /\ UNCHANGED <<bufs, raw, allocs, invalidFree, srcLen, srcT>>

\* the caller writes to its own slice
WriteSlice(i, v) ==
    /\ panic = "none"
    /\ srcT > 0
    /\ i < srcLen
    /\ mem' = PtrWrite(mem, srcT, SrcAddr, i + 1, v)
    /\ last' = [L0 EXCEPT !.op = "write_slice", !.idx = i, !.val = v]
    /\ UNCHANGED <<bufs, raw, allocs, invalidFree, srcLen, srcT, panic>>

\* the buffer goes out of scope
Drop(s) ==
    /\ panic = "none"
    /\ bufs[s].live
    /\ \E oc \in FreeOutcomes :
         LET r == drop(bufs[s], mem, allocs, oc) IN
         /\ mem' = r.mem
         /\ allocs' = r.allocs
         /\ invalidFree' = (invalidFree \/ r.invalid)
         /\ panic' = IF r.res = "panic" THEN "unwinding" ELSE "none"
         /\ last' = [L0 EXCEPT !.op = "drop", !.slot = s, !.size = bufs[s].capacity,
                               !.tsize = bufs[s].tsize, !.ptr = bufs[s].buf,
                               !.res = r.res, !.frees = r.frees,
                               !.reborn = bufs[s].reborn,
                               !.drvFree = IF r.frees = <<>> THEN "ok" ELSE oc]
    /\ bufs' = [bufs EXCEPT ![s] = NoBuf]
    /\ UNCHANGED <<raw, srcLen, srcT>>

\* a panic unwinds the stack: every buffer still alive is dropped; a panic
\* raised while unwinding aborts the process
Unwind(s) ==
    /\ panic = "unwinding"
    /\ bufs[s].live
    /\ \E oc \in FreeOutcomes :
         LET r == drop(bufs[s], mem, allocs, oc) IN
         /\ mem' = r.mem
         /\ allocs' = r.allocs
         /\ invalidFree' = (invalidFree \/ r.invalid)
         /\ panic' = IF r.res = "panic" THEN "aborted" ELSE "unwinding"
         /\ last' = [L0 EXCEPT !.op = "unwind_drop", !.slot = s,
                               !.size = bufs[s].capacity,
                               !.tsize = bufs[s].tsize, !.ptr = bufs[s].buf,
                               !.res = r.res, !.frees = r.frees,
                               !.reborn = bufs[s].reborn,
                               !.drvFree = IF r.frees = <<>> THEN "ok" ELSE oc]
    /\ bufs' = [bufs EXCEPT ![s] = NoBuf]
    /\ UNCHANGED <<raw, srcLen, srcT>>

\* the value the tests fill with: &0u64, &ZeroSizedType
ZeroOf(tsize) == IF tsize = 0 THEN Unit ELSE 0

\* Ownership: several buffers filled with zeros, every size, hand-off through
\* raw parts, destruction, a failing driver, unwinding.
Next ==
    \/ \E s \in Slots, size \in SizeArgs, tsize \in ElemSizes :
         New(s, ZeroOf(tsize), size, tsize)
    \/ \E s \in Slots : IntoRawParts(s)
    \/ \E s \in Slots : \E p \in raw : FromRawParts(s, p)
    \/ \E s \in Slots : Drop(s)
    \/ \E s \in Slots : Unwind(s)

Spec == Init /\ [][Next]_vars

\* Contents: one buffer at a time, every value, reads and writes by index,
\* hand-off through raw parts.
NextData ==
    \/ \E size \in SizeArgs, tsize \in ElemSizes :
         \E v \in ValuesOf(tsize) : raw = {} /\ New(1, v, size, tsize)
    \/ \E size \in SizeArgs, tsize \in ElemSizes : raw = {} /\ Uninitialized(1, size, tsize)
    \/ IntoRawParts(1)
    \/ \E p \in raw : FromRawParts(1, p)
    \/ \E i \in 0 .. MaxLen : IndexRead(1, i)
    \/ \E i \in 0 .. MaxLen : \E v \in Data : IndexWrite(1, i, v)
    \/ Drop(1)
    \/ Unwind(1)

SpecData == Init /\ [][NextData]_vars

\* Construction: one buffer at a time from every constructor, every size and
\* every slice; writes to the buffer and to the caller's slice.
NextSlice ==
    \/ \E size \in SizeArgs, tsize \in ElemSizes :
         \E v \in ValuesOf(tsize) : New(1, v, size, tsize)
    \/ \E size \in SizeArgs, tsize \in ElemSizes : Uninitialized(1, size, tsize)
    \/ \E tsize \in ElemSizes :
         \E slice \in SliceArgs(tsize) : FromSlice(1, slice, tsize)
    \/ \E i \in 0 .. MaxLen : IndexRead(1, i)
    \/ \E i \in 0 .. MaxLen : \E v \in Data : IndexWrite(1, i, v)
    \/ \E i \in 0 .. MaxLen : \E v \in Data : WriteSlice(i, v)
    \/ Drop(1)
    \/ Unwind(1)

SpecSlice == Init /\ [][NextSlice]_vars

\* ------------------------------------------------------------- properties
CtorOps == {"new", "from_slice", "uninitialized"}

DropOps == {"drop", "unwind_drop"}

\* C1: when size * size_of::<T>() does not fit in usize, the constructor fails with
\* InvalidMemoryAllocation, leaves no buffer and makes no allocator call.
C1_OverflowRejected ==
    (last.op \in CtorOps /\ last.size * last.tsize > UsizeMax) =>
        /\ last.res = "InvalidMemoryAllocation"
        /\ last.req = <<>>
        /\ ~bufs[last.slot].live
        /\ \A a \in Addrs : ~allocs[a].live

C1_Witness ==
    /\ last.op = "new"
    /\ last.size = UsizeMax - 1
    /\ last.tsize > 1
    /\ last.res = "InvalidMemoryAllocation"

\* C2: a buffer of zero bytes (no elements, or elements of a zero-sized type) is
\* built without an allocator call and destroyed without a deallocator call: every
\* request is for more than zero bytes and the placeholder address is never freed.
C2_ZeroFootprintNoDriverCall ==
    /\ (last.op \in CtorOps /\ last.size * last.tsize = 0) =>
           (last.req = <<>> /\ last.res = "ok" /\ bufs[last.slot].buf = Dangling)
    /\ \A k \in DOMAIN last.req : last.req[k] > 0
    /\ (last.op \in DropOps /\ last.size * last.tsize = 0) => last.frees = <<>>
    /\ \A k \in DOMAIN last.frees : last.frees[k] # Dangling
    /\ invalidFree = FALSE

C2_Witness ==
    /\ last.op = "drop"
    /\ last.tsize = 0
    /\ last.size > 0
    /\ last.frees = <<>>

\* the buffers and the decomposed pairs that own the allocation at address a
Owners(a) ==
    Cardinality({s \in Slots : bufs[s].live /\ bufs[s].buf = a
                                /\ bufs[s].capacity * bufs[s].tsize > 0})
    + Cardinality({p \in raw : p.ptr = a /\ p.size * p.tsize > 0})

NoLiveBuffer == \A s \in Slots : ~bufs[s].live

\* C3, as stated: the deallocator only ever gets an address that is allocated
\* and not yet freed, at most once per allocation, and once no buffer is alive
\* every successful allocation has been passed to the deallocator exactly once.
C3_FreedOnceWhenNoBufferLives ==
    /\ invalidFree = FALSE
    /\ \A a \in Addrs : allocs[a].frees <= 1
    /\ NoLiveBuffer => \A a \in Addrs : allocs[a].live => allocs[a].frees = 1

\* C3, amended: the same, once no buffer is alive and no decomposed pair is
\* left unreconstructed; until then every allocation not yet passed to the
\* deallocator has exactly one owner, a buffer or a decomposed pair.
C3_FreedOnceWhenNothingOutstanding ==
    /\ invalidFree = FALSE
    /\ \A a \in Addrs : allocs[a].frees <= 1
    /\ \A a \in Addrs : (allocs[a].live /\ allocs[a].frees = 0) => Owners(a) = 1
    /\ (NoLiveBuffer /\ raw = {}) =>
           \A a \in Addrs : allocs[a].live => allocs[a].frees = 1

C3_Witness ==
    /\ last.op = "drop"
    /\ last.reborn
    /\ last.frees = <<last.ptr>>
    /\ NoLiveBuffer
    /\ raw = {}
    /\ \E a \in Addrs : a # last.ptr /\ allocs[a].frees = 1 /\ ~allocs[a].live

\* one step of the hand-off through raw parts; `always` says that the
\* destruction of the reconstructed buffer calls the deallocator whatever the
\* buffer's footprint
HandOffStep(always) ==
    /\ last'.op = "into_raw_parts" =>
           /\ allocs' = allocs
           /\ mem' = mem
           /\ last'.snap = as_slice(bufs[last'.slot], mem)
    /\ last'.op = "from_raw_parts" =>
           /\ allocs' = allocs
           /\ mem' = mem
           /\ bufs'[last'.slot].live
           /\ Len(as_slice(bufs'[last'.slot], mem')) = Len(last'.snap)
           /\ as_slice(bufs'[last'.slot], mem') = last'.snap
    /\ (last'.op \in DropOps /\ last'.reborn) =>
           IF always \/ last'.size * last'.tsize > 0
           THEN last'.frees = <<last'.ptr>> /\ allocs'[last'.ptr].frees = 1
           ELSE last'.frees = <<>>

\* C4, as stated: the reconstructed buffer has the length and the contents of
\* the decomposed one, the hand-off calls neither allocator nor deallocator, and
\* destroying the reconstructed buffer calls the deallocator once on its address.
C4_RoundTripFreesOnce == [][HandOffStep(TRUE)]_vars

\* C4, amended: the same, the deallocator being called once on the address when
\* the buffer occupies bytes and not at all when it occupies none.
C4_RoundTripFreesOnceIfBytes == [][HandOffStep(FALSE)]_vars

C4_Witness ==
    /\ last.op = "drop"
    /\ last.reborn
    /\ last.size = MaxLen
    /\ last.frees = <<last.ptr>>
    /\ allocs[last.ptr].frees = 1

\* C5: new(v, size) returns a buffer of exactly size elements, each equal to v;
\* a write to index i changes element i and no other.
C5_NewFillsThenWriteIsLocal ==
    [][ /\ (last'.op = "new" /\ last'.res = "ok") =>
               /\ bufs'[last'.slot].live
               /\ Len(as_slice(bufs'[last'.slot], mem')) = last'.size
               /\ \A i \in 1 .. last'.size :
                      as_slice(bufs'[last'.slot], mem')[i] = last'.val
        /\ (last'.op = "index_mut" /\ last'.res = "ok") =>
               /\ Len(as_slice(bufs'[last'.slot], mem'))
                      = Len(as_slice(bufs[last'.slot], mem))
               /\ \A i \in 1 .. Len(as_slice(bufs[last'.slot], mem)) :
                      as_slice(bufs'[last'.slot], mem')[i] =
                          IF i = last'.idx + 1 THEN last'.val
                          ELSE as_slice(bufs[last'.slot], mem)[i]
      ]_vars

C5_Witness ==
    /\ last.op = "index_mut"
    /\ last.res = "ok"
    /\ last.idx = 1
    /\ bufs[1].origin = "new"
    /\ ~bufs[1].reborn
    /\ as_slice(bufs[1], mem) = <<0, 1>>

\* C6: from_slice(s) returns a buffer with the length and the elements of s, in
\* order, in storage of its own: a write to the buffer leaves s as it was and a
\* write to s leaves the buffer as it was.
C6_FromSliceCopies ==
    [][ /\ (last'.op = "from_slice" /\ last'.res = "ok") =>
               /\ bufs'[last'.slot].live
               /\ Len(as_slice(bufs'[last'.slot], mem')) = Len(last'.snap)
               /\ as_slice(bufs'[last'.slot], mem') = last'.snap
               /\ Slice(mem)' = last'.snap
        /\ last'.op = "index_mut" => Slice(mem)' = Slice(mem)
        /\ last'.op = "write_slice" =>
               \A s \in Slots : bufs[s].live =>
                   as_slice(bufs'[s], mem') = as_slice(bufs[s], mem)
      ]_vars

C6_Witness ==
    /\ last.op = "write_slice"
    /\ bufs[1].live
    /\ bufs[1].origin = "from_slice"
    /\ srcLen = MaxLen
    /\ \A i \in 1 .. srcLen : as_slice(bufs[1], mem)[i] # Slice(mem)[i]

\* C7: a constructor whose byte count is neither zero nor too large calls the
\* allocator once, with that byte count; a failure comes back as the driver
\* gave it, with no buffer, no element written and no deallocator call; on
\* success the buffer holds the address the driver returned and capacity = size.
C7_AllocatorCalledOnce ==
    (last.op \in CtorOps /\ last.size * last.tsize \in 1 .. UsizeMax) =>
        /\ last.req = <<last.size * last.tsize>>
        /\ last.frees = <<>>
        /\ last.res # "ok" =>
               /\ ~last.drv.ok
               /\ last.res = last.drv.err
               /\ last.res \in DriverErrors
               /\ ~bufs[last.slot].live
               /\ last.st = NoStats(0)
               /\ \A a \in Addrs : ~allocs[a].live /\ mem[a] = <<>>
        /\ last.res = "ok" =>
               /\ last.drv.ok
               /\ bufs[last.slot].live
               /\ bufs[last.slot].buf = last.drv.addr
               /\ bufs[last.slot].capacity = last.size
               /\ allocs[last.drv.addr].live

C7_Witness ==
    /\ last.op = "new"
    /\ last.res = "InvalidValue"
    /\ last.req = <<MaxLen * last.tsize>>
    /\ last.size = MaxLen

\* C8, as stated: after a deallocation that failed in a destructor no step of
\* the program runs.
C8_NothingRunsAfterFailedFree == [][panic = "none"]_vars

\* C8, amended: a deallocation that fails in a destructor makes the destructor
\* panic, never return; from then on nothing runs but the destructors of the
\* buffers still alive, which unwinding runs, and a second failure there aborts
\* the process, after which nothing runs at all.
C8_FailedFreePanics ==
    [][ /\ (last'.op \in DropOps /\ last'.frees # <<>> /\ last'.drvFree # "ok") =>
               (last'.res = "panic" /\ panic' # "none")
        /\ (last'.op = "unwind_drop" /\ last'.res = "panic") => panic' = "aborted"
        /\ panic # "none" =>
               /\ panic = "unwinding"
               /\ panic' # "none"
               /\ last'.op = "unwind_drop"
               /\ raw' = raw
               /\ \A s \in Slots : bufs'[s] = bufs[s] \/ bufs'[s] = NoBuf
      ]_vars

C8_Witness ==
    /\ panic = "unwinding"
    /\ last.op = "unwind_drop"
    /\ last.frees # <<>>
    /\ last.res = "ok"

\* C9: the read view and the mutable view of a live buffer have capacity
\* elements, capacity is the size the constructor was given and no access
\* changes it; an index below capacity succeeds and reads that element, an index
\* at or above capacity fails as out of bounds and changes nothing.
C9_ViewsHaveCapacityElements ==
    [][ /\ \A s \in Slots : bufs'[s].live =>
               /\ Len(as_slice(bufs'[s], mem')) = bufs'[s].capacity
               /\ Len(as_mut_slice(bufs'[s], mem')) = bufs'[s].capacity
        /\ (last'.op \in CtorOps /\ last'.res = "ok") =>
               bufs'[last'.slot].capacity = last'.size
        /\ last'.op \in {"index", "index_mut"} =>
               /\ bufs' = bufs
               /\ bufs[last'.slot].live
               /\ IF last'.idx < bufs[last'.slot].capacity
                  THEN /\ last'.res = "ok"
                       /\ panic' = "none"
                       /\ last'.op = "index" =>
                              last'.got \in
                                  {as_slice(bufs[last'.slot], mem)[last'.idx + 1]} \cup
                                  (IF as_slice(bufs[last'.slot], mem)[last'.idx + 1] = Uninit
                                   THEN Data ELSE {})
                  ELSE /\ last'.res = "OutOfBounds"
                       /\ panic' = "unwinding"
                       /\ mem' = mem
      ]_vars

C9_Witness ==
    /\ last.op = "index"
    /\ last.res = "OutOfBounds"
    /\ bufs[1].live
    /\ bufs[1].capacity = MaxLen
    /\ bufs[1].tsize > 0
    /\ last.idx = MaxLen

\* C10: new and from_slice write each slot of the fresh buffer exactly once,
\* form no typed view over slots not yet written and never assign over (and so
\* drop) a slot not yet written.
C10_WriteOnlyInitialisation ==
    (last.op \in {"new", "from_slice"} /\ last.res = "ok") =>
        /\ \A i \in DOMAIN last.st.writes : last.st.writes[i] = 1
        /\ last.st.views = 0
        /\ last.st.assigns = 0
====
